---------------------------- MODULE Spec2Model ----------------------------
(***************************************************************************)
(* Model of the nano-drm payload pipeline (src/src/lib.rs).                *)
(*                                                                         *)
(*   write:  raw -> len32 frame -> RS shards -> len64 frame -> embed       *)
(*   read :  carrier -> extract -> RS reconstruct -> len32 unframe -> raw  *)
(*                                                                         *)
(* The carrier file at `path` is the state.  A file is a record            *)
(*   head : the first min(8, length) bytes of the file,                    *)
(*   body : what follows them, kept in decoded form: nothing, undecodable  *)
(*          bytes, an RGBA8 raster (PNG) or an object graph (PDF).         *)
(* PNG encoding is lossless and the PDF serializer keeps the object graph, *)
(* so image::load_from_memory / write_to and Document::load_mem / save_to  *)
(* are the projections between the file and its decoded body.              *)
(* Lengths stay far below 2^31, so `as u32` / `as usize` never truncate.   *)
(***************************************************************************)
EXTENDS Integers, Sequences, FiniteSets, TLC

VARIABLES file, result, history, damaged

vars == <<file, result, history, damaged>>

(* ---------------------------- bounds ----------------------------------- *)

\* longest payload handed to write
MaxPayloadLen == 15

\* number of successful writes followed in one behaviour
MaxWrites == 2

(* --------------------------- constants --------------------------------- *)

DATA_SHARDS == 10

PARITY_SHARDS == 4

TOTAL_SHARDS == DATA_SHARDS + PARITY_SHARDS

PNG_MAGIC == <<137, 80, 78, 71, 13, 10, 26, 10>>

PDF_MAGIC == <<37, 80, 68, 70>>

(* ---------------------------- helpers ---------------------------------- *)

Min(a, b) == IF a < b THEN a ELSE b

Zeros(n) == [i \in 1..n |-> 0]

Prefix(s, n) == SubSeq(s, 1, Min(n, Len(s)))

Drop(s, n) == SubSeq(s, n + 1, Len(s))

RECURSIVE Flatten(_)
Flatten(ss) == IF ss = <<>> THEN <<>> ELSE Head(ss) \o Flatten(Tail(ss))

\* uN::to_be_bytes for an N = 8*w bit unsigned integer
RECURSIVE to_be_bytes(_, _)
to_be_bytes(n, w) ==
    IF w = 0 THEN <<>> ELSE Append(to_be_bytes(n \div 256, w - 1), n % 256)

\* uN::from_be_bytes
RECURSIVE from_be_bytes(_)
from_be_bytes(b) ==
    IF b = <<>> THEN 0
    ELSE from_be_bytes(SubSeq(b, 1, Len(b) - 1)) * 256 + b[Len(b)]

\* slice::chunks(n), n > 0 (n = 0 panics: the callers test for it)
RECURSIVE chunks(_, _)
chunks(s, n) ==
    IF s = <<>> THEN <<>>
    ELSE <<Prefix(s, n)>> \o chunks(Drop(s, n), n)

\* Vec::resize(n, 0)
resize(s, n) == IF Len(s) >= n THEN SubSeq(s, 1, n) ELSE s \o Zeros(n - Len(s))

\* (x as f64).sqrt().ceil()
RECURSIVE CeilSqrtFrom(_, _)
CeilSqrtFrom(n, s) == IF s * s >= n THEN s ELSE CeilSqrtFrom(n, s + 1)

CeilSqrt(n) == CeilSqrtFrom(n, 0)

Ok(v) == [ok |-> TRUE, kind |-> "none", val |-> v]

Err(k) == [ok |-> FALSE, kind |-> k, val |-> <<>>]

(* ----------------------- Reed-Solomon kernel --------------------------- *)

\* One parity byte of parity shard p over the column `col` of the data
\* shards.  The kernel's GF(2^8) matrix row is abstracted by a weighted sum
\* modulo 256: parity is a function of the data column, its values are
\* never read back by `read`.
RECURSIVE ParitySum(_, _, _)
ParitySum(p, col, i) ==
    IF i = 0 THEN 0 ELSE (ParitySum(p, col, i - 1) + (p + i) * col[i]) % 256

ShardSizesOk(shards) == \A i \in 1..Len(shards) : Len(shards[i]) = Len(shards[1])

\* ReedSolomon::encode: piece count, then shard sizes, then parity in place
rs_encode(shards) ==
    IF Len(shards) < TOTAL_SHARDS THEN Err("Rs:TooFewShards")
    ELSE IF Len(shards) > TOTAL_SHARDS THEN Err("Rs:TooManyShards")
    ELSE IF Len(shards[1]) = 0 THEN Err("Rs:EmptyShard")
    ELSE IF ~ShardSizesOk(shards) THEN Err("Rs:IncorrectShardSize")
    ELSE Ok([s \in 1..TOTAL_SHARDS |->
               IF s <= DATA_SHARDS THEN shards[s]
               ELSE [k \in 1..Len(shards[1]) |->
                       ParitySum(s - DATA_SHARDS,
                                 [i \in 1..DATA_SHARDS |-> shards[i][k]],
                                 DATA_SHARDS)]])

\* ReedSolomon::reconstruct on shards that are all Some(..): piece count,
\* shard sizes, and then nothing to do
rs_reconstruct(shards) ==
    IF Len(shards) < TOTAL_SHARDS THEN Err("Rs:TooFewShards")
    ELSE IF Len(shards) > TOTAL_SHARDS THEN Err("Rs:TooManyShards")
    ELSE IF \E i \in 1..Len(shards) : Len(shards[i]) = 0 THEN Err("Rs:EmptyShard")
    ELSE IF ~ShardSizesOk(shards) THEN Err("Rs:IncorrectShardSize")
    ELSE Ok(shards)

(* -------------------------- write: encoding ---------------------------- *)

\* len_bytes ++ raw_data
full_data_of(raw_data) == to_be_bytes(Len(raw_data), 4) \o raw_data

shard_len_of(full_data) == (Len(full_data) + DATA_SHARDS - 1) \div DATA_SHARDS

\* the shards handed to rs.encode: the chunks of full_data, each resized to
\* shard_len, followed by PARITY_SHARDS zero shards
shards_of(full_data) ==
    LET l == shard_len_of(full_data)
        data == chunks(full_data, l)
    IN  [i \in 1..Len(data) |-> resize(data[i], l)]
        \o [i \in 1..PARITY_SHARDS |-> Zeros(l)]

\* final_payload: len64(|E|) ++ E, or the kernel's error
final_payload_of(raw_data) ==
    LET enc == rs_encode(shards_of(full_data_of(raw_data)))
    IN  IF ~enc.ok THEN enc
        ELSE LET encoded_data == Flatten(enc.val)
             IN  Ok(to_be_bytes(Len(encoded_data), 8) \o encoded_data)

(* ---------------------------- carrier file ------------------------------ *)

NoBody == [k |-> "none", w |-> 0, h |-> 0, samples |-> <<>>,
           objs |-> <<>>, pages |-> <<>>]

GarbageBody == [NoBody EXCEPT !.k = "garbage"]

RasterBody(w, h, samples) ==
    [NoBody EXCEPT !.k = "raster", !.w = w, !.h = h, !.samples = samples]

DocBody(objs, pages) == [NoBody EXCEPT !.k = "doc", !.objs = objs, !.pages = pages]

\* data.len(): a body, when there is one, follows the 8 head bytes and
\* occupies at least one byte
FileLen(data) ==
    Len(data.head)
    + (IF data.body.k = "none" THEN 0
       ELSE 1 + Len(data.body.samples) + Len(data.body.objs))

detect_file_type(data) ==
    IF FileLen(data) > 8 /\ Prefix(data.head, 8) = PNG_MAGIC THEN "Png"
    ELSE IF FileLen(data) > 4 /\ Prefix(data.head, 4) = PDF_MAGIC THEN "Pdf"
    ELSE "Unsupported"

(* ------------------------------ PNG stego ------------------------------ *)

\* image::load_from_memory(..)?.to_rgba8()
load_rgba8(image_data) ==
    IF image_data.body.k = "raster" THEN Ok(image_data.body) ELSE Err("Image")

\* bits taken most significant first
BitOfMsbFirst(byte, i) == (byte \div (2 ^ (7 - i))) % 2

\* (byte >> i) & 1
BitOf(byte, i) == (byte \div (2 ^ i)) % 2

\* (*byte_chunk & 0xFE) | bit
SetLsb(sample, bit) == (sample \div 2) * 2 + bit

embed_in_png(image_data, data_to_embed) ==
    LET img == load_rgba8(image_data)
    IN  IF ~img.ok THEN img
        ELSE LET raw == img.val.samples
                 capacity == Len(raw)
                 required_capacity == Len(data_to_embed) * 8
             IN  IF capacity < required_capacity
                 THEN Err("Message:NotEnoughSpace")
                 ELSE Ok([head |-> PNG_MAGIC,
                          body |-> RasterBody(img.val.w, img.val.h,
                             [n \in 1..capacity |->
                                IF n <= required_capacity
                                THEN SetLsb(raw[n],
                                            BitOf(data_to_embed[((n - 1) \div 8) + 1],
                                                  (n - 1) % 8))
                                ELSE raw[n]])])

\* byte i (0-based) of the LSB stream: len_bytes[i] |= bit << j
RECURSIVE LsbByteFrom(_, _, _)
LsbByteFrom(raw, i, j) ==
    IF j = 8 THEN 0
    ELSE (raw[8 * i + j + 1] % 2) * (2 ^ j) + LsbByteFrom(raw, i, j + 1)

LsbByte(raw, i) == LsbByteFrom(raw, i, 0)

extract_from_png(image_data) ==
    LET img == load_rgba8(image_data)
    IN  IF ~img.ok THEN img
        ELSE LET raw == img.val.samples
             IN  IF Len(raw) < 64 THEN Err("Message:EndBeforeLength")
                 ELSE LET payload_len ==
                              from_be_bytes([i \in 1..8 |-> LsbByte(raw, i - 1)])
                      IN  IF Len(raw) < 64 + 8 * payload_len
                          THEN Err("Message:EndBeforePayload")
                          ELSE Ok([i \in 1..payload_len |-> LsbByte(raw, 7 + i)])

(* ----------------------------- PDF injector ---------------------------- *)

Keys == {"Resources", "Contents", "XObject", "ExtGState", "Font",
         "UpdrmImg", "UpdrmGS", "Im0", "GS0"}

Absent == [t |-> "absent", v |-> 0]

Ref(id) == [t |-> "ref", v |-> id]

Dict(d) == [t |-> "dict", v |-> d]

Arr(a) == [t |-> "array", v |-> a]

\* an image stream; v is the raw Luma8 buffer its PNG content decodes to
Stream(raw) == [t |-> "stream", v |-> raw]

\* a page content stream
ContentStream == [t |-> "content", v |-> 0]

\* the graphics state dictionary << /ca 0.01 >>
GsDict == [t |-> "gs", v |-> 1]

\* any other object (a font, an image of the document)
Other == [t |-> "other", v |-> 0]

EmptyDict == [k \in Keys |-> Absent]

\* Document::load_mem
load_mem(pdf_data) ==
    IF pdf_data.body.k = "doc"
    THEN Ok([objs |-> pdf_data.body.objs, pages |-> pdf_data.body.pages])
    ELSE Err("Pdf")

\* Document::add_object: the new object gets id max_id + 1
add_object(doc, obj) == [doc EXCEPT !.objs = Append(@, obj)]

new_id(doc) == Len(doc.objs) + 1

\* doc.get_object(id)?.as_dict()? succeeds
is_dict(doc, id) == id \in 1..Len(doc.objs) /\ doc.objs[id].t = "dict"

\* doc.get_object_mut(id)?.as_dict_mut()?.set(key, val)
set_key(doc, id, key, val) == [doc EXCEPT !.objs[id].v[key] = val]

\* the entry is inserted only when the name is not yet there
set_updrm_if_absent(doc, dict_id, name, id) ==
    IF doc.objs[dict_id].v[name].t = "absent"
    THEN [doc EXCEPT !.objs[dict_id].v[name] = [t |-> "ref", v |-> id]]
    ELSE doc

\* dict.set(name, id): the entry is inserted or replaced
set_updrm(doc, dict_id, name, id) == set_key(doc, dict_id, name, Ref(id))

\* the noise image: side x side Luma8, data_to_embed then zeros
noise_image(data_to_embed) ==
    LET side == CeilSqrt(Len(data_to_embed))
    IN  Stream([index \in 1..(side * side) |->
                  IF index <= Len(data_to_embed) THEN data_to_embed[index] ELSE 0])

\* the id of the dictionary under `key` of dictionary `owner`, and the
\* document after creating it when `key` does not hold a reference
ensure_ref(doc, owner, key) ==
    LET cur == doc.objs[owner].v[key]
    IN  IF cur.t = "ref" THEN [id |-> cur.v, doc |-> doc]
        ELSE [id |-> new_id(doc),
              doc |-> set_key(add_object(doc, Dict(EmptyDict)), owner, key,
                              Ref(new_id(doc)))]

\* the Contents array of a page, the new content stream pushed
contents_with(page_dict, new_content_id) ==
    LET c == page_dict["Contents"]
        contents_array == IF c.t = "ref" THEN <<c>>
                          ELSE IF c.t = "array" THEN c.v
                          ELSE <<>>
    IN  Arr(Append(contents_array, Ref(new_content_id)))

\* one pass of the page loop; Err("Pdf") is a `?` that returns
embed_in_page(doc, page_id, image_id, gs_id) ==
    IF ~is_dict(doc, page_id) THEN Err("Pdf")
    ELSE
    LET r == ensure_ref(doc, page_id, "Resources")
        resources_id == r.id
    IN  IF ~is_dict(r.doc, resources_id) THEN Err("Pdf")
        ELSE
        LET x == ensure_ref(r.doc, resources_id, "XObject")
            g == ensure_ref(x.doc, resources_id, "ExtGState")
        IN  IF ~is_dict(g.doc, x.id) THEN Err("Pdf")
            ELSE
            LET d1 == set_updrm(g.doc, x.id, "UpdrmImg", image_id)
            IN  IF ~is_dict(d1, g.id) THEN Err("Pdf")
                ELSE
                LET d2 == set_updrm(d1, g.id, "UpdrmGS", gs_id)
                    new_content_id == new_id(d2)
                    d3 == add_object(d2, ContentStream)
                IN  Ok(set_key(d3, page_id, "Contents",
                               contents_with(d3.objs[page_id].v, new_content_id)))

RECURSIVE embed_in_pages(_, _, _, _)
embed_in_pages(doc, n, image_id, gs_id) ==
    IF n > Len(doc.pages) THEN Ok(doc)
    ELSE LET step == embed_in_page(doc, doc.pages[n], image_id, gs_id)
         IN  IF ~step.ok THEN step
             ELSE embed_in_pages(step.val, n + 1, image_id, gs_id)

embed_in_pdf(pdf_data, data_to_embed) ==
    LET loaded == load_mem(pdf_data)
    IN  IF ~loaded.ok THEN loaded
        ELSE LET image_id == new_id(loaded.val)
                 d1 == add_object(loaded.val, noise_image(data_to_embed))
                 gs_id == new_id(d1)
                 d2 == add_object(d1, GsDict)
                 done == embed_in_pages(d2, 1, image_id, gs_id)
             IN  IF ~done.ok THEN done
                 ELSE Ok([head |-> pdf_data.head,
                          body |-> DocBody(done.val.objs, done.val.pages)])

\* the payload of an UpdrmImg stream
payload_of_image(raw) ==
    IF Len(raw) < 8 THEN Err("Message:TooShort")
    ELSE LET payload_len == from_be_bytes(SubSeq(raw, 1, 8))
         IN  IF Len(raw) < 8 + payload_len THEN Err("Message:LengthMismatch")
             ELSE Ok(SubSeq(raw, 9, 8 + payload_len))

RECURSIVE extract_from_pages(_, _)
extract_from_pages(doc, n) ==
    IF n > Len(doc.pages) THEN Err("Message:NoEmbeddedData")
    ELSE
    LET page_id == doc.pages[n]
        next == extract_from_pages(doc, n + 1)
    IN  IF ~is_dict(doc, page_id) THEN Err("Pdf")
        ELSE LET res == doc.objs[page_id].v["Resources"]
        IN  IF res.t # "ref" THEN next
            ELSE IF ~is_dict(doc, res.v) THEN Err("Pdf")
            ELSE LET xobj == doc.objs[res.v].v["XObject"]
            IN  IF xobj.t # "ref" THEN next
                ELSE IF ~is_dict(doc, xobj.v) THEN Err("Pdf")
                ELSE LET img == doc.objs[xobj.v].v["UpdrmImg"]
                IN  IF img.t # "ref" THEN next
                    ELSE IF img.v \notin 1..Len(doc.objs) THEN Err("Pdf")
                    ELSE IF doc.objs[img.v].t # "stream" THEN Err("Pdf")
                    ELSE payload_of_image(doc.objs[img.v].v)

extract_from_pdf(pdf_data) ==
    LET loaded == load_mem(pdf_data)
    IN  IF ~loaded.ok THEN loaded ELSE extract_from_pages(loaded.val, 1)

(* ------------------------------- write --------------------------------- *)

\* what `write` computes up to, and without, the final fs::write: the
\* modified carrier bytes, or the error it returns early with
modified_file_bytes_of(original_file_bytes, data) ==
    IF data.ty \notin {"str", "bytes"} THEN Err("Py:TypeError")
    ELSE LET final_payload == final_payload_of(data.b)
         IN  IF ~final_payload.ok THEN final_payload
             ELSE LET file_type == detect_file_type(original_file_bytes)
                  IN  CASE file_type = "Png" ->
                             embed_in_png(original_file_bytes, final_payload.val)
                        [] file_type = "Pdf" ->
                             embed_in_pdf(original_file_bytes, final_payload.val)
                        [] OTHER -> Err("Message:UnsupportedFileType")

\* the file truncated for writing before the carrier is embedded
file_created_first(original_file_bytes, modified) ==
    IF modified.ok THEN modified.val ELSE [head |-> <<>>, body |-> NoBody]

\* the file at `path` when `write` returns: fs::write is its last step and
\* every error returns before it
file_after_write(original_file_bytes, modified) ==
    IF modified.ok THEN modified.val ELSE original_file_bytes

(* -------------------------------- read --------------------------------- *)

Returned(v) == [status |-> "ok", kind |-> "none", val |-> v]

Failed(k) == [status |-> "err", kind |-> k, val |-> <<>>]

\* a Rust panic unwinding out of the function
Panicked(k) == [status |-> "panic", kind |-> k, val |-> <<>>]

\* read from the RS step on, given the extracted encoded_data
decode(encoded_data) ==
    LET shard_len == Len(encoded_data) \div TOTAL_SHARDS
    IN  IF shard_len = 0 THEN Panicked("chunks: chunk size must be non-zero")
        ELSE
        LET rec == rs_reconstruct(chunks(encoded_data, shard_len))
        IN  IF ~rec.ok THEN Failed(rec.kind)
            ELSE
            LET full_data == Flatten(SubSeq(rec.val, 1, DATA_SHARDS))
            IN  IF Len(full_data) < 4 THEN Failed("Message:TooShortForHeader")
                ELSE
                LET raw_data_len == from_be_bytes(SubSeq(full_data, 1, 4))
                IN  IF Len(full_data) < 4 + raw_data_len
                    THEN Failed("Message:ShorterThanHeader")
                    ELSE Returned(SubSeq(full_data, 5, 4 + raw_data_len))

read(file_bytes) ==
    LET file_type == detect_file_type(file_bytes)
        encoded_data == CASE file_type = "Png" -> extract_from_png(file_bytes)
                          [] file_type = "Pdf" -> extract_from_pdf(file_bytes)
                          [] OTHER -> Err("Message:UnsupportedFileType")
    IN  IF ~encoded_data.ok THEN Failed(encoded_data.kind)
        ELSE decode(encoded_data.val)

(* ------------------------------ carriers ------------------------------- *)

PDF_HEAD == <<37, 80, 68, 70, 45, 49, 46, 52>>

\* an RGBA8 raster of w x h pixels whose samples vary in every bit and whose
\* first 64 sample LSBs spell the big-endian 64-bit length n (n < 256)
Raster(w, h, n) ==
    RasterBody(w, h,
        [idx \in 1..(4 * w * h) |->
            LET plain == (idx * 37 + 11) % 256
            IN  IF idx > 64 THEN plain
                ELSE (plain \div 2) * 2
                     + (IF idx >= 57 THEN (n \div (2 ^ (idx - 57))) % 2 ELSE 0)])

RasterDims == {<<1, 1>>, <<4, 4>>, <<7, 7>>, <<9, 9>>}

CarriedLens == {0, 5, 15}

PngCarriers ==
    {[head |-> PNG_MAGIC, body |-> Raster(d[1], d[2], n)] :
        d \in RasterDims, n \in CarriedLens}

PageDict(resources, contents) ==
    Dict([EmptyDict EXCEPT !["Resources"] = resources, !["Contents"] = contents])

\* one page, no /Resources, /Contents a single reference
DocA == DocBody(<<PageDict(Absent, Ref(2)), ContentStream>>, <<1>>)

\* two pages: the first with /Resources, /XObject and /ExtGState all indirect,
\* the second with an inline /Resources dictionary
DocB ==
    DocBody(<<PageDict(Ref(3), Ref(7)),
              PageDict(Dict([EmptyDict EXCEPT !["Font"] = Ref(8)]), Arr(<<Ref(7)>>)),
              Dict([EmptyDict EXCEPT !["Font"] = Ref(8), !["XObject"] = Ref(4),
                                     !["ExtGState"] = Ref(5)]),
              Dict([EmptyDict EXCEPT !["Im0"] = Ref(6)]),
              Dict([EmptyDict EXCEPT !["GS0"] = Ref(9)]),
              Other, ContentStream, Other, GsDict>>,
            <<1, 2>>)

\* one page, /Resources indirect with an inline /XObject and no /ExtGState
DocC ==
    DocBody(<<PageDict(Ref(2), Absent),
              Dict([EmptyDict EXCEPT
                      !["XObject"] = Dict([EmptyDict EXCEPT !["Im0"] = Ref(3)])]),
              Other>>,
            <<1>>)

\* two pages, the second with an /XObject reference to a non-dictionary
DocD ==
    DocBody(<<PageDict(Absent, Absent),
              PageDict(Ref(3), Absent),
              Dict([EmptyDict EXCEPT !["XObject"] = Ref(4)]),
              Other>>,
            <<1, 2>>)

PdfCarriers == {[head |-> PDF_HEAD, body |-> b] : b \in {DocA, DocB, DocC, DocD}}

\* files that are no decodable carrier: empty, short, foreign, bare magic,
\* magic followed by bytes the codec rejects
OtherFiles ==
    {[head |-> h, body |-> NoBody] :
        h \in {<<>>, <<70, 79, 79, 10>>, PNG_MAGIC, SubSeq(PNG_MAGIC, 1, 7),
               PDF_MAGIC, SubSeq(PDF_MAGIC, 1, 3), PDF_HEAD}}
    \cup {[head |-> h, body |-> GarbageBody] :
            h \in {PNG_MAGIC, PDF_HEAD, <<137, 80, 78, 71, 13, 10, 26, 11>>}}

Carriers == PngCarriers \cup PdfCarriers \cup OtherFiles

(* ------------------------------- inputs -------------------------------- *)

Hello == <<104, 101, 108, 108, 111>>

\* n bytes counting up from `first`
Pattern(n, first) == [i \in 1..n |-> (first + i - 1) % 256]

FirstBytes == {0, 170}

WriteInputs ==
    {[ty |-> "bytes", b |-> Pattern(n, f)] : n \in 0..MaxPayloadLen, f \in FirstBytes}
    \cup {[ty |-> "str", b |-> Hello], [ty |-> "other", b |-> <<>>]}

NoInput == [ty |-> "none", b |-> <<>>]

(* ------------------------------- actions ------------------------------- *)

Init ==
    /\ file \in Carriers
    /\ result = [op |-> "none", data |-> NoInput, status |-> "none",
                 kind |-> "none", val |-> <<>>]
    /\ history = <<>>
    /\ damaged = 0

\* write(path, data)
Write(data) ==
    /\ Len(history) < MaxWrites
    /\ \E modified \in {modified_file_bytes_of(file, data)} :
           /\ file' = file_after_write(file, modified)
           /\ result' = [op |-> "write", data |-> data,
                         status |-> IF modified.ok THEN "ok" ELSE "err",
                         kind |-> modified.kind, val |-> <<>>]
           /\ history' = IF modified.ok THEN Append(history, data.b) ELSE history
           /\ damaged' = IF modified.ok THEN 0 ELSE damaged

\* read(path)
Read ==
    /\ \E r \in {read(file)} :
           result' = [op |-> "read", data |-> NoInput, status |-> r.status,
                      kind |-> r.kind, val |-> r.val]
    /\ UNCHANGED <<file, history, damaged>>

Next == (\E data \in WriteInputs : Write(data)) \/ Read

Spec == Init /\ [][Next]_vars

(* ------------------------ a damaged shard region ----------------------- *)

\* Shard region k (1..14) of the F2 embedded by the last write has all its
\* bytes set to zero: the 8 * shard_len sample LSBs that carry it are cleared.
DamageShard(k) ==
    /\ history # <<>>
    /\ damaged = 0
    /\ file.body.k = "raster"
    /\ LET shard_len == shard_len_of(full_data_of(history[Len(history)]))
           first == 8 * (8 + (k - 1) * shard_len) + 1
           last == 8 * (8 + k * shard_len)
       IN  file' = [file EXCEPT !.body.samples =
                      [n \in 1..Len(@) |->
                         IF n >= first /\ n <= last THEN (@[n] \div 2) * 2 ELSE @[n]]]
    /\ damaged' = k
    /\ result' = [op |-> "damage", data |-> NoInput, status |-> "none",
                  kind |-> "none", val |-> <<>>]
    /\ UNCHANGED history

NextCorrupt == Next \/ (\E k \in 1..TOTAL_SHARDS : DamageShard(k))

SpecCorrupt == Init /\ [][NextCorrupt]_vars

(* ----------------------------- properties ------------------------------ *)

LastWritten == history[Len(history)]

IsWriteOfBytes == result.op = "write" /\ result.data.ty \in {"str", "bytes"}

\* |F2| as the specification computes it: 8 + 14 * ceil((4 + |R|) / 10)
SpecF2Len(R) == 8 + 14 * ((4 + Len(R) + 9) \div 10)

\* every reference a page's resources go through resolves to a dictionary
DocResolves(body) ==
    \A n \in 1..Len(body.pages) :
        LET r == body.objs[body.pages[n]].v["Resources"]
        IN  r.t = "ref" =>
              /\ body.objs[r.v].t = "dict"
              /\ \A key \in {"XObject", "ExtGState"} :
                    LET sub == body.objs[r.v].v[key]
                    IN  sub.t = "ref" => body.objs[sub.v].t = "dict"

\* a supported carrier with room for payload R
CarrierFits(f, R) ==
    \/ /\ detect_file_type(f) = "Png"
       /\ f.body.k = "raster"
       /\ 4 * f.body.w * f.body.h >= 8 * SpecF2Len(R)
    \/ /\ detect_file_type(f) = "Pdf"
       /\ f.body.k = "doc"
       /\ DocResolves(f.body)

\* C1: round trip.  For every payload R and every supported carrier with
\* room for it, write succeeds, and the read that follows a successful
\* write returns exactly R.
C1_RoundTrip ==
    /\ (IsWriteOfBytes /\ CarrierFits(file, result.data.b)) => result.status = "ok"
    /\ (result.op = "read" /\ history # <<>>) =>
          (result.status = "ok" /\ result.val = LastWritten)

\* C2: shard alignment.  For every payload R, with F1 = len32(|R|) || R and
\* l = ceil(|F1| / 10), the encoder hands the RS kernel exactly 14 shards, all
\* of length l.
C2_ShardAlignment ==
    IsWriteOfBytes =>
        LET F1 == full_data_of(result.data.b)
            l == (Len(F1) + 9) \div 10
            handed == shards_of(F1)
        IN  /\ Len(handed) = 14
            /\ \A i \in 1..Len(handed) : Len(handed[i]) = l

\* C3: capacity bound.  On a W x H PNG carrier write succeeds if and only if
\* 4*W*H >= 8 * (8 + 14 * ceil((4 + |R|) / 10)), and fails with the
\* insufficient-capacity error when the inequality fails.
C3_CapacityBound ==
    (IsWriteOfBytes /\ detect_file_type(file) = "Png" /\ file.body.k = "raster") =>
        LET fits == 4 * file.body.w * file.body.h >= 8 * SpecF2Len(result.data.b)
        IN  /\ result.status = "ok" <=> fits
            /\ ~fits => result.kind = "Message:NotEnoughSpace"

\* C4: corruption tolerance.  After a successful write to a PNG carrier,
\* with any single one of the 14 shard regions of the embedded F2 zeroed,
\* read still returns the payload written.
C4_CorruptionTolerance ==
    (result.op = "read" /\ history # <<>> /\ file.body.k = "raster" /\ damaged # 0) =>
        (result.status = "ok" /\ result.val = LastWritten)

\* the value a reference or inline value stands for
Resolved(body, v) ==
    IF v.t = "ref" /\ v.v \in 1..Len(body.objs) THEN body.objs[v.v] ELSE v

EntriesOf(body, v) ==
    LET d == Resolved(body, v)
    IN  IF d.t = "dict" THEN {key \in Keys : d.v[key].t # "absent"} ELSE {}

\* the resource keys of a page: the keys of its /Resources and, below
\* them, the names in /XObject and in /ExtGState
ResourceKeys(body, page_id) ==
    LET res == Resolved(body, body.objs[page_id].v["Resources"])
    IN  {<<key>> : key \in EntriesOf(body, res)}
        \cup (IF res.t # "dict" THEN {}
              ELSE UNION {{<<sub, name>> : name \in EntriesOf(body, res.v[sub])} :
                            sub \in {"XObject", "ExtGState"}})

\* C5: PDF per-page invariant.  A successful write to a PDF leaves every
\* page with /Resources/XObject/UpdrmImg and /Resources/ExtGState/UpdrmGS and
\* removes no resource key the page had before.
C5_PdfPageResources ==
    [][(result'.op = "write" /\ result'.status = "ok" /\ file.body.k = "doc") =>
          \A n \in 1..Len(file.body.pages) :
              LET page_id == file.body.pages[n]
              IN  /\ <<"XObject", "UpdrmImg">> \in ResourceKeys(file'.body, page_id)
                  /\ <<"ExtGState", "UpdrmGS">> \in ResourceKeys(file'.body, page_id)
                  /\ ResourceKeys(file.body, page_id)
                        \subseteq ResourceKeys(file'.body, page_id)]_vars

\* C6: detection is by magic prefix only: PNG for every input of length >= 8
\* that starts with the PNG signature, PDF for every input of length >= 4
\* that starts with %PDF, Unsupported for every other input.
C6_DetectByMagic ==
    detect_file_type(file) =
        (IF FileLen(file) >= 8 /\ Prefix(file.head, 8) = PNG_MAGIC THEN "Png"
         ELSE IF FileLen(file) >= 4 /\ Prefix(file.head, 4) = PDF_MAGIC THEN "Pdf"
         ELSE "Unsupported")

\* the encoded payload E the extractor of the carrier's type returns
Extracted(f) ==
    IF detect_file_type(f) = "Png" THEN extract_from_png(f)
    ELSE IF detect_file_type(f) = "Pdf" THEN extract_from_pdf(f)
    ELSE Err("Message:UnsupportedFileType")

\* C7: whenever the E extracted from the carrier has |E| mod 14 # 0, read
\* returns an error value: it neither panics nor returns payload bytes.
C7_MisalignedRejected ==
    (result.op = "read" /\ Extracted(file).ok /\ Len(Extracted(file).val) % 14 # 0) =>
        result.status = "err"

\* C8: PNG layout and frame.  After embed_in_png succeeds with F2, the LSB
\* of sample 8*i+j is bit j (LSB first) of F2[i], the upper 7 bits of every
\* sample are unchanged, and every sample from index 8*|F2| on is unchanged.
C8_PngLayout ==
    [][(result'.op = "write" /\ result'.status = "ok" /\ file.body.k = "raster") =>
          \A F2 \in {final_payload_of(result'.data.b).val} :
          LET old == file.body.samples
              new == file'.body.samples
          IN  /\ Len(new) = Len(old)
              /\ \A i \in 0..(Len(F2) - 1) : \A j \in 0..7 :
                    /\ new[8 * i + j + 1] % 2 = (F2[i + 1] \div (2 ^ j)) % 2
                    /\ new[8 * i + j + 1] \div 2 = old[8 * i + j + 1] \div 2
              /\ \A n \in (8 * Len(F2) + 1)..Len(old) : new[n] = old[n]]_vars

\* a successful PNG write that left samples beyond the embedded F2, one of
\* them with its low bit set, and embedded both 0 and 1 bits
C8_Witness ==
    /\ result.op = "write" /\ result.status = "ok" /\ file.body.k = "raster"
    /\ \E F2 \in {final_payload_of(result.data.b).val} :
           /\ \E n \in (8 * Len(F2) + 1)..Len(file.body.samples) :
                 file.body.samples[n] % 2 = 1
           /\ \E n \in 1..(8 * Len(F2)) : file.body.samples[n] % 2 = 1
           /\ \E n \in 1..(8 * Len(F2)) : file.body.samples[n] % 2 = 0

\* C9: a write that fails leaves the carrier file as it was; the file
\* changes only in the step of a write that succeeds.
C9_FailedWriteKeepsFile ==
    [][/\ (result'.op = "write" /\ result'.status # "ok") => file' = file
       /\ file' # file => (result'.op = "write" /\ result'.status = "ok")]_vars

\* a write that failed on a carrier holding an earlier payload, which a read
\* would still return
C9_Witness ==
    /\ result.op = "write" /\ result.status = "err"
    /\ history # <<>>
    /\ read(file).status = "ok" /\ read(file).val = LastWritten

\* C10: last write wins.  After any sequence of successful writes to the
\* same carrier, read returns the payload of the last one.
C10_LastWriteWins ==
    (result.op = "read" /\ history # <<>>) =>
        (result.status = "ok" /\ result.val = LastWritten)

\* a read after two successful writes, the later payload the shorter one
C10_Witness ==
    /\ result.op = "read" /\ result.status = "ok"
    /\ Len(history) >= 2
    /\ Len(history[Len(history) - 1]) > Len(LastWritten)
    /\ result.val = LastWritten

=============================================================================
